---- MODULE Spec2Model ----
(***************************************************************************)
(* Model of the vdsm sos plugin (vdsm-sos-plugin/vdsm.py): one run of      *)
(* vdsm.setup(), the requests it hands to the archival subsystem, and the  *)
(* remote connection it scopes.                                            *)
(*                                                                         *)
(* Text is modelled as a sequence of pieces: a name or a command is the    *)
(* sequence of its literal parts and the values formatted into it, a path  *)
(* is the sequence of its components.                                      *)
(***************************************************************************)
EXTENDS Integers, Sequences, FiniteSets, TLC

VARIABLES
    pc,          \* position in setup()
    opts,        \* what getOption() answers for each declared option
    forbidden_paths, \* the exclusions declared to the archival subsystem
    copy_paths,  \* the copy requests made to it, in order
    collect_cmds, \* the command requests made to it, in order
    copy_strings, \* the bundle: the named artifacts stored in it, in order
    conn,        \* the connection cli: "none", "open", "closed", "failed"
    lifecycle,   \* the connects and closes of the connection, in order
    calls,       \* the remote calls made, in order
    pools_list,  \* local of setup(), line 200
    sd_uuids,    \* local of setup(), line 208
    todo,        \* what is left of the loop (or call sequence) in progress
    err,         \* the operation whose exception left setup(), or "none"
    faults       \* guarded remote calls that raised so far

vars ==
    <<pc, opts, forbidden_paths, copy_paths, collect_cmds, copy_strings, conn,
      lifecycle, calls, pools_list, sd_uuids, todo, err, faults>>

----------------------------------------------------------------------------
(* Bounds of the model *)

MaxListLen == 2
MaxRunDir == 1
MaxFaults == 1

PoolIds == {"pool-a", "pool-b"}
DomainIds == {"sd-a", "sd-b"}
Pids == {"4242", "4243"}
RunDirNames == {"sysprep.vfd", "isoUploader", "storage", "svdsm.sock", "payload"}
Errors == {[cls |-> "Exception", msg |-> "Connection refused"]}

\* Python values of the options
PyNone == <<"NoneType", "None">>
PyFalse == <<"bool", "False">>
PyTrue == <<"bool", "True">>
PyStr(s) == <<"str", s>>

RECURSIVE SeqsUpTo(_, _)
SeqsUpTo(S, n) ==
    IF n = 0 THEN {<<>>}
    ELSE LET shorter == SeqsUpTo(S, n - 1)
         IN  shorter \cup {Append(s, x) : s \in shorter, x \in S}

Distinct(s) == \A i, j \in 1..Len(s) : i # j => s[i] # s[j]

\* pgrep prints the process ids in ascending order, each once.
PidLists ==
    {s \in SeqsUpTo(Pids, MaxListLen) : Distinct(s) /\ (s = <<>> \/ s[1] = "4242")}

\* What the endpoint can answer the discovery calls with. Nothing in setup()
\* looks into an identifier, so the lists are drawn up to renaming: the
\* first identifier of a list is the first of its set. A pool may be listed
\* twice; the UUIDs of storage domains are distinct.
PoolLists ==
    {s \in SeqsUpTo(PoolIds, MaxListLen) : s = <<>> \/ s[1] = "pool-a"}
DomainLists ==
    {s \in SeqsUpTo(DomainIds, MaxListLen) :
        Distinct(s) /\ (s = <<>> \/ s[1] = "sd-a")}

----------------------------------------------------------------------------
(* Program constants *)

DATA_DOMAIN == 1

LVM_CONFIG ==
    "global { locking_type=0 metadata_read_only=1 use_lvmetad=0 } devices { preferred_names=[ \"^/dev/mapper/\" ] ignore_suspended_devices=1 write_cache_state=0 disable_after_error_count=3 filter=[ \"a|^/dev/mapper/.*|\", \"r|.*|\" ] }"

\* option_list: (name, description, speed, default)
option_list ==
    << [name |-> "logsize", default |-> PyFalse],
       [name |-> "dump-volume-chains", default |-> PyFalse] >>

OptionDefault(name) ==
    LET i == CHOOSE k \in 1..Len(option_list) : option_list[k].name = name
    IN  option_list[i].default

----------------------------------------------------------------------------
(* The archival subsystem's interface: what each request hands to it *)

addForbiddenPath(path) == [kind |-> "forbid", arg |-> path, extra |-> <<>>]
addCopySpec(path) == [kind |-> "copy", arg |-> path, extra |-> <<>>]
addCopySpecLimit(path, limit) == [kind |-> "copylimit", arg |-> path, extra |-> limit]
collectExtOutput(cmd) == [kind |-> "cmd", arg |-> cmd, extra |-> <<>>]
addStringAsFile(content, name) == [kind |-> "string", arg |-> name, extra |-> content]

getOption(name) == opts[name]

\* Python truth value of an option value
Truthy(v) == v \notin {PyNone, PyFalse, PyStr("")}

----------------------------------------------------------------------------
(* Serialisation *)

RECURSIVE JsonItems(_)
JsonItems(xs) ==
    IF xs = <<>> THEN <<>>
    ELSE IF Len(xs) = 1 THEN <<ToString(xs[1])>>
    ELSE <<ToString(xs[1]), ", ">> \o JsonItems(Tail(xs))

\* json.dumps of a list of integers
json_dumps(result) == <<"[">> \o JsonItems(result) \o <<"]">>

\* str(e) of an exception
str(e) == <<e.msg>>

----------------------------------------------------------------------------
(* The fixed request lists of setup() *)

ForbiddenPaths ==
    << <<"etc", "pki", "vdsm", "keys", "*">>,
       <<"etc", "pki", "vdsm", "libvirt-spice", "*-key.*">>,
       <<"etc", "pki", "libvirt", "private", "*">> >>

CopySpecsHeadWholeEtc ==
    << <<"tmp", "vds_installer*">>,
       <<"tmp", "vds_bootstrap*">>,
       <<"etc", "*">> >>

\* lines 136-138
CopySpecsHead ==
    << <<"tmp", "vds_installer*">>,
       <<"tmp", "vds_bootstrap*">>,
       <<"etc", "vdsm", "*">> >>

VdsmLogPath == <<"var", "log", "vdsm", "*">>

\* lines 145-148
CopySpecsTail ==
    << <<"usr", "libexec", "vdsm", "hooks">>,
       <<"var", "lib", "vdsm">>,
       <<"var", "log", "ovirt.log">>,
       <<"var", "log", "sanlock.log">> >>

\* lines 154-156
ProcPaths(pid) ==
    << <<"proc", pid, "cmdline">>,
       <<"proc", pid, "status">>,
       <<"proc", pid, "mountstats">> >>

\* lines 157-173
ExtCommands ==
    << <<"/bin/ls -ldZ /etc/vdsm">>,
       <<"/bin/su vdsm -s /bin/sh -c '/usr/bin/tree -l /rhev/data-center'">>,
       <<"/bin/su vdsm -s /bin/sh -c '/bin/ls -lR /rhev/data-center'">>,
       <<"/sbin/lvm vgs -v -o +tags --config '", LVM_CONFIG, "'">>,
       <<"/sbin/lvm lvs -v -o +tags --config '", LVM_CONFIG, "'">>,
       <<"/sbin/lvm pvs -v -o +all --config '", LVM_CONFIG, "'">>,
       <<"/sbin/fdisk -l">>,
       <<"/usr/bin/iostat">>,
       <<"/sbin/iscsiadm -m node">>,
       <<"/sbin/iscsiadm -m session">>,
       <<"/usr/sbin/nodectl info">>,
       <<"/usr/bin/abrt-cli list">> >>

\* lines 183-198: the calls made through collectVdsmCommand, in order
HostCalls ==
    << [name |-> <<"Host.getCapabilities">>, kwargs |-> <<>>],
       [name |-> <<"Host.getStats">>, kwargs |-> <<>>],
       [name |-> <<"Host.getAllVmStats">>, kwargs |-> <<>>],
       [name |-> <<"Host.getVMFullList">>, kwargs |-> <<>>],
       [name |-> <<"Host.getDeviceList">>, kwargs |-> <<"checkStatus", "False">>],
       [name |-> <<"Host.hostdevListByCaps">>, kwargs |-> <<>>],
       [name |-> <<"Host.getAllTasksInfo">>, kwargs |-> <<>>],
       [name |-> <<"Host.getAllTasksStatuses">>, kwargs |-> <<>>] >>

SpmStatusNameNoId(pool) == <<"StoragePool.getSpmStatus ">>

\* line 203
SpmStatusName(pool) == <<"StoragePool.getSpmStatus ", pool>>

\* line 210
DumpChainsCmd(sd_uuid) == <<"vdsm-tool dump-volume-chains ", sd_uuid>>

Map(f(_), s) == [i \in 1..Len(s) |-> f(s[i])]

----------------------------------------------------------------------------
(* Remote endpoint events *)

\* Each event records the state of the connection it was made on.
ConnectEvent(ok) == [op |-> "connect", host |-> "localhost", ok |-> ok, conn |-> conn]
CloseEvent == [op |-> "close", host |-> "localhost", ok |-> TRUE, conn |-> conn]
CallEvent(name, kwargs, ok) == [name |-> name, kwargs |-> kwargs, ok |-> ok, conn |-> conn]

\* What a remote call does: it returns the endpoint's data or raises.
NoError == [cls |-> "", msg |-> ""]
Returned(v) == [ok |-> TRUE, res |-> v, exc |-> NoError]
Raised(e) == [ok |-> FALSE, res |-> <<>>, exc |-> e]

\* The structured data the endpoint answers a method with
EndpointData(name) ==
    IF name \in {<<"Host.getVMFullList">>, <<"Host.getAllTasksInfo">>}
    THEN <<>> ELSE <<1, 2>>

CallOutcomes(name) ==
    {Returned(EndpointData(name))}
        \cup (IF faults < MaxFaults THEN {Raised(e) : e \in Errors} ELSE {})

collectVdsmCommandWrongKey(name, out) ==
    IF out.ok
    THEN addStringAsFile(json_dumps(out.res), name)
    ELSE addStringAsFile(str(out.exc), <<"error">>)

\* lines 123-128
collectVdsmCommand(name, out) ==
    IF out.ok
    THEN addStringAsFile(json_dumps(out.res), name)
    ELSE addStringAsFile(str(out.exc), name)

closingOnlyOnSuccess(c, raising) == IF raising THEN c ELSE "closed"

\* line 182: utils.closing(cli).__exit__ closes cli however the block is left
closing(c, raising) == "closed"

\* Leaving the with block of line 182, normally or with the exception
\* raised by `by`.
LeaveBlock(raising, by) ==
    /\ conn' = closing(conn, raising)
    /\ lifecycle' = IF closing(conn, raising) = "closed"
                    THEN Append(lifecycle, CloseEvent) ELSE lifecycle
    /\ pc' = IF raising THEN "raised" ELSE "done"
    /\ err' = IF raising THEN by ELSE err

----------------------------------------------------------------------------
(* The run *)

Init ==
    /\ pc = "start"
    /\ \E logsize \in {PyNone, OptionDefault("logsize"), PyStr("10")},
          dump \in {OptionDefault("dump-volume-chains"), PyTrue} :
          opts = [o \in {"logsize", "dump-volume-chains"} |->
                    IF o = "logsize" THEN logsize ELSE dump]
    /\ forbidden_paths = <<>>
    /\ copy_paths = <<>>
    /\ collect_cmds = <<>>
    /\ copy_strings = <<>>
    /\ conn = "none"
    /\ lifecycle = <<>>
    /\ calls = <<>>
    /\ pools_list = <<>>
    /\ sd_uuids = <<>>
    /\ todo = <<>>
    /\ err = "none"
    /\ faults = 0

Remote == <<conn, lifecycle, calls, pools_list, sd_uuids, faults>>

\* lines 131-138
Prologue ==
    /\ pc = "start"
    /\ forbidden_paths' = forbidden_paths \o Map(addForbiddenPath, ForbiddenPaths)
    /\ collect_cmds' = Append(collect_cmds, collectExtOutput(<<"service vdsmd status">>))
    /\ copy_paths' = copy_paths \o Map(addCopySpec, CopySpecsHead)
    /\ pc' = "logsize"
    /\ UNCHANGED <<opts, copy_strings, todo, err, Remote>>

\* lines 139-143
LogCopy ==
    /\ pc = "logsize"
    /\ LET logsize == getOption("logsize")
       IN  \/ /\ logsize # PyNone
              /\ copy_paths' = Append(copy_paths, addCopySpecLimit(VdsmLogPath, logsize))
           \/ /\ logsize = PyNone
              /\ copy_paths' = Append(copy_paths, addCopySpec(VdsmLogPath))
    /\ pc' = "glob"
    /\ UNCHANGED <<opts, forbidden_paths, collect_cmds, copy_strings, todo, err, Remote>>

\* line 219: glob.glob("/var/run/vdsm/*")
RunDirGlob ==
    /\ pc = "glob"
    /\ \E names \in SeqsUpTo(RunDirNames, MaxRunDir) :
          /\ Distinct(names)
          /\ todo' = [i \in 1..Len(names) |-> <<"var", "run", "vdsm", names[i]>>]
    /\ pc' = "rundir"
    /\ UNCHANGED <<opts, forbidden_paths, copy_paths, collect_cmds, copy_strings,
                   err, Remote>>

Basename(f) == f[Len(f)]
EndsWithVfd(f) == Basename(f) \in {"sysprep.vfd"}
EndsWithIsoUploader(f) == Basename(f) = "isoUploader"
EndsWithStorage(f) == Basename(f) = "storage"

\* lines 219-223: one iteration of the loop of _addVdsmRunDir
RunDirEntry ==
    /\ pc = "rundir"
    /\ todo # <<>>
    /\ LET f == Head(todo)
       IN  \/ /\ EndsWithVfd(f) \/ EndsWithIsoUploader(f) \/ EndsWithStorage(f)
              /\ todo' = Tail(todo)
              /\ UNCHANGED <<pc, err, copy_paths>>
           \/ /\ ~EndsWithVfd(f) /\ ~EndsWithIsoUploader(f) /\ ~EndsWithStorage(f)
              /\ \E st \in {"S_IFREG", "S_IFSOCK", "OSError"} :
                    \/ /\ st = "S_IFREG"
                       /\ copy_paths' = Append(copy_paths, addCopySpec(f))
                       /\ todo' = Tail(todo)
                       /\ UNCHANGED <<pc, err>>
                    \/ /\ st = "S_IFSOCK"
                       /\ todo' = Tail(todo)
                       /\ UNCHANGED <<pc, err, copy_paths>>
                    \/ /\ st = "OSError"
                       /\ todo' = <<>>
                       /\ pc' = "raised"
                       /\ err' = "os.stat"
                       /\ UNCHANGED copy_paths
    /\ UNCHANGED <<opts, forbidden_paths, collect_cmds, copy_strings, Remote>>

\* lines 145-148
CopyTail ==
    /\ pc = "rundir"
    /\ todo = <<>>
    /\ copy_paths' = copy_paths \o Map(addCopySpec, CopySpecsTail)
    /\ pc' = "pgrep"
    /\ UNCHANGED <<opts, forbidden_paths, collect_cmds, copy_strings, todo, err, Remote>>

\* lines 149-151: subprocess.Popen(['/usr/bin/pgrep', 'qemu-kvm']) and communicate()
Pgrep ==
    /\ pc = "pgrep"
    /\ \/ /\ \E out \in PidLists : todo' = out
          /\ pc' = "proc"
          /\ err' = err
       \/ /\ todo' = <<>>
          /\ pc' = "raised"
          /\ err' = "subprocess.Popen"
    /\ UNCHANGED <<opts, forbidden_paths, copy_paths, collect_cmds, copy_strings, Remote>>

\* lines 152-156
ProcEntry ==
    /\ pc = "proc"
    /\ todo # <<>>
    /\ copy_paths' = copy_paths \o Map(addCopySpec, ProcPaths(Head(todo)))
    /\ todo' = Tail(todo)
    /\ UNCHANGED <<pc, opts, forbidden_paths, collect_cmds, copy_strings, err, Remote>>

\* lines 157-173
Commands ==
    /\ pc = "proc"
    /\ todo = <<>>
    /\ collect_cmds' = collect_cmds \o Map(collectExtOutput, ExtCommands)
    /\ pc' = "connect"
    /\ UNCHANGED <<opts, forbidden_paths, copy_paths, copy_strings, todo, err, Remote>>

ConnectFailedNoReturn ==
    /\ \E e \in Errors :
          copy_strings' =
              Append(copy_strings, addStringAsFile(<<"Cannot connect to vdsm: ">> \o str(e),
                                                   <<"client.connect">>))
    /\ conn' = "failed"
    /\ lifecycle' = Append(lifecycle, ConnectEvent(FALSE))
    /\ pc' = "host"
    /\ todo' = HostCalls
    /\ UNCHANGED <<calls, pools_list, sd_uuids, faults, err>>

\* lines 176-180: client.connect('localhost') raises
ConnectFailed ==
    /\ \E e \in Errors :
          copy_strings' =
              Append(copy_strings, addStringAsFile(<<"Cannot connect to vdsm: ">> \o str(e),
                                                   <<"client.connect">>))
    /\ conn' = "failed"
    /\ lifecycle' = Append(lifecycle, ConnectEvent(FALSE))
    /\ pc' = "done"
    /\ todo' = <<>>
    /\ UNCHANGED <<calls, pools_list, sd_uuids, faults, err>>

\* lines 176, 182-183: client.connect('localhost') returns cli
ConnectOk ==
    /\ conn' = "open"
    /\ lifecycle' = Append(lifecycle, ConnectEvent(TRUE))
    /\ pc' = "host"
    /\ todo' = HostCalls
    /\ UNCHANGED <<copy_strings, calls, pools_list, sd_uuids, faults, err>>

\* lines 175-182
Connect ==
    /\ pc = "connect"
    /\ (ConnectFailed \/ ConnectOk)
    /\ UNCHANGED <<opts, forbidden_paths, copy_paths, collect_cmds>>

\* self.collectVdsmCommand(name, call, **kwargs) as a step of setup()
GuardedCall(name, kwargs) ==
    \E out \in CallOutcomes(name) :
        /\ copy_strings' = Append(copy_strings, collectVdsmCommand(name, out))
        /\ calls' = Append(calls, CallEvent(name, kwargs, out.ok))
        /\ faults' = IF out.ok THEN faults ELSE faults + 1

\* lines 183-198
HostCall ==
    /\ pc = "host"
    /\ todo # <<>>
    /\ GuardedCall(Head(todo).name, Head(todo).kwargs)
    /\ todo' = Tail(todo)
    /\ UNCHANGED <<pc, opts, forbidden_paths, copy_paths, collect_cmds, conn,
                   lifecycle, pools_list, sd_uuids, err>>

\* line 200
DiscoverPools ==
    /\ pc = "host"
    /\ todo = <<>>
    /\ LET call(ok) == CallEvent(<<"Host.getConnectedStoragePools">>, <<>>, ok)
       IN  \/ /\ \E pools \in PoolLists :
                    /\ pools_list' = pools
                    /\ todo' = pools
              /\ calls' = Append(calls, call(TRUE))
              /\ pc' = "pools"
              /\ UNCHANGED <<conn, lifecycle, err>>
           \/ /\ calls' = Append(calls, call(FALSE))
              /\ LeaveBlock(TRUE, "Host.getConnectedStoragePools")
              /\ UNCHANGED <<pools_list, todo>>
    /\ UNCHANGED <<opts, forbidden_paths, copy_paths, collect_cmds, copy_strings,
                   sd_uuids, faults>>

\* lines 201-205
PoolStatus ==
    /\ pc = "pools"
    /\ todo # <<>>
    /\ GuardedCall(SpmStatusName(Head(todo)), <<"storagepoolID", Head(todo)>>)
    /\ todo' = Tail(todo)
    /\ UNCHANGED <<pc, opts, forbidden_paths, copy_paths, collect_cmds, conn,
                   lifecycle, pools_list, sd_uuids, err>>

\* line 207, the option is not set: the with block ends
DumpDisabled ==
    /\ pc = "pools"
    /\ todo = <<>>
    /\ ~Truthy(getOption("dump-volume-chains"))
    /\ LeaveBlock(FALSE, "none")
    /\ UNCHANGED <<opts, forbidden_paths, copy_paths, collect_cmds, copy_strings,
                   calls, pools_list, sd_uuids, todo, faults>>

\* lines 207-208
DiscoverDomains ==
    /\ pc = "pools"
    /\ todo = <<>>
    /\ Truthy(getOption("dump-volume-chains"))
    /\ LET call(ok) == CallEvent(<<"Host.getStorageDomains">>,
                                 <<"domainClass", ToString(DATA_DOMAIN)>>, ok)
       IN  \/ /\ \E sds \in DomainLists :
                    /\ sd_uuids' = sds
                    /\ todo' = sds
              /\ calls' = Append(calls, call(TRUE))
              /\ pc' = "domains"
              /\ UNCHANGED <<conn, lifecycle, err>>
           \/ /\ calls' = Append(calls, call(FALSE))
              /\ LeaveBlock(TRUE, "Host.getStorageDomains")
              /\ UNCHANGED <<sd_uuids, todo>>
    /\ UNCHANGED <<opts, forbidden_paths, copy_paths, collect_cmds, copy_strings,
                   pools_list, faults>>

\* lines 209-211: one iteration; the request either is accepted or raises
DomainCommand ==
    /\ pc = "domains"
    /\ todo # <<>>
    /\ \/ /\ collect_cmds' = Append(collect_cmds, collectExtOutput(DumpChainsCmd(Head(todo))))
          /\ todo' = Tail(todo)
          /\ UNCHANGED <<pc, conn, lifecycle, err>>
       \/ /\ LeaveBlock(TRUE, "collectExtOutput")
          /\ UNCHANGED <<collect_cmds, todo>>
    /\ UNCHANGED <<opts, forbidden_paths, copy_paths, copy_strings, calls,
                   pools_list, sd_uuids, faults>>

\* line 211, the loop is over: the with block ends
Finish ==
    /\ pc = "domains"
    /\ todo = <<>>
    /\ LeaveBlock(FALSE, "none")
    /\ UNCHANGED <<opts, forbidden_paths, copy_paths, collect_cmds, copy_strings,
                   calls, pools_list, sd_uuids, todo, faults>>

Next ==
    \/ Prologue
    \/ LogCopy
    \/ RunDirGlob
    \/ RunDirEntry
    \/ CopyTail
    \/ Pgrep
    \/ ProcEntry
    \/ Commands
    \/ Connect
    \/ HostCall
    \/ DiscoverPools
    \/ PoolStatus
    \/ DumpDisabled
    \/ DiscoverDomains
    \/ DomainCommand
    \/ Finish

Spec == Init /\ [][Next]_vars

----------------------------------------------------------------------------
(* What the claims speak of *)

Exited == pc \in {"done", "raised"}

IsDump(r) == r.arg[1] = "vdsm-tool dump-volume-chains "
DumpRequests == SelectSeq(collect_cmds, IsDump)

DiscoveryNames == {<<"Host.getConnectedStoragePools">>, <<"Host.getStorageDomains">>}
IsGuarded(e) == e.name \notin DiscoveryNames
IsRemoteEntry(r) == r.arg # <<"client.connect">>
IsSpmStatus(name) == name[1] = "StoragePool.getSpmStatus "

CopyRequested(path) ==
    \E i \in 1..Len(copy_paths) : copy_paths[i].kind = "copy" /\ copy_paths[i].arg = path
CmdRequested(cmd) ==
    \E i \in 1..Len(collect_cmds) : collect_cmds[i].arg = cmd

\* The requests of lines 135-173 that do not depend on what the host holds
LocalRequestsIssued ==
    /\ CmdRequested(<<"service vdsmd status">>)
    /\ \A p \in {<<"tmp", "vds_installer*">>, <<"tmp", "vds_bootstrap*">>,
                 <<"etc", "vdsm", "*">>, <<"usr", "libexec", "vdsm", "hooks">>,
                 <<"var", "lib", "vdsm">>, <<"var", "log", "ovirt.log">>,
                 <<"var", "log", "sanlock.log">>} : CopyRequested(p)
    /\ Cardinality({i \in 1..Len(copy_paths) :
                        copy_paths[i].arg = <<"var", "log", "vdsm", "*">>}) = 1
    /\ \A c \in {<<"/bin/ls -ldZ /etc/vdsm">>, <<"/sbin/fdisk -l">>,
                 <<"/usr/bin/iostat">>, <<"/sbin/iscsiadm -m node">>,
                 <<"/sbin/iscsiadm -m session">>, <<"/usr/sbin/nodectl info">>,
                 <<"/usr/bin/abrt-cli list">>} : CmdRequested(c)
    /\ Len(collect_cmds) - Len(DumpRequests) = 13

\* C1: when client.connect raises, the bundle holds exactly one entry, named
\* client.connect; no remote call is made and no per-domain command is
\* requested; the copy and command requests of the local phase have all
\* been issued.
C1_ConnectFailure ==
    conn = "failed" =>
        /\ Len(copy_strings) = 1
        /\ copy_strings[1].arg = <<"client.connect">>
        /\ copy_strings[1].extra = <<"Cannot connect to vdsm: ", "Connection refused">>
        /\ calls = <<>>
        /\ DumpRequests = <<>>
        /\ LocalRequestsIssued

C1_Witness ==
    /\ conn = "failed"
    /\ pc = "done"
    /\ CopyRequested(<<"proc", "4242", "status">>)
    /\ CopyRequested(<<"var", "run", "vdsm", "payload">>)

\* C2: no exception of a remote call, the two discovery calls included,
\* leaves setup().
C2_NoRemoteCallPropagates ==
    ~(pc = "raised"
        /\ err \in {"Host.getConnectedStoragePools", "Host.getStorageDomains"})

\* The text json.dumps gives for what the endpoint answers a method with
ExpectedJson(name) ==
    IF name \in {<<"Host.getVMFullList">>, <<"Host.getAllTasksInfo">>}
    THEN <<"[", "]">>
    ELSE <<"[", "1", ", ", "2", "]">>

\* C3: each invocation of collectVdsmCommand stores exactly one artifact
\* under its name, the JSON text of the result when the call returned and
\* the exception's string when it raised; a raising call stops nothing: the
\* calls after it are made.
C3_CaptureOrErrorString ==
    LET guarded == SelectSeq(calls, IsGuarded)
        entries == SelectSeq(copy_strings, IsRemoteEntry)
    IN  /\ Len(entries) = Len(guarded)
        /\ \A i \in 1..Len(guarded) :
              /\ entries[i].arg = guarded[i].name
              /\ entries[i].extra =
                    IF guarded[i].ok THEN ExpectedJson(guarded[i].name)
                    ELSE <<"Connection refused">>
        /\ (conn \in {"open", "closed"} /\ pc # "host") =>
              /\ Len(calls) >= 9
              /\ \A i \in 1..8 : calls[i].name = HostCalls[i].name
              /\ calls[9].name = <<"Host.getConnectedStoragePools">>

C3_Witness ==
    /\ Exited
    /\ Len(calls) >= 9
    /\ \E i \in 1..7 :
          /\ ~calls[i].ok
          /\ calls[i + 1].ok
          /\ copy_strings[i].extra = <<"Connection refused">>
          /\ copy_strings[i + 1].extra = <<"[", "1", ", ", "2", "]">>

\* C4: when setup() is over, the bundle holds exactly one entry under the
\* name of every remote call that was attempted, the discovery calls
\* included, also when an identifier was discovered twice.
C4_OneEntryPerAttemptedAction ==
    Exited =>
        \A k \in 1..Len(calls) :
            Cardinality({i \in 1..Len(copy_strings) :
                            copy_strings[i].arg = calls[k].name}) = 1

\* C5: the connection is acquired at most once; once acquired it is closed
\* when setup() is left, however it is left; every remote call is made on
\* the open connection, after the connect and before the close.
C5_ScopedConnection ==
    /\ Len(lifecycle) <= 2
    /\ \A i \in 1..Len(lifecycle) :
          lifecycle[i].op = IF i = 1 THEN "connect" ELSE "close"
    /\ \A i \in 1..Len(lifecycle) :
          lifecycle[i].op = "close" => lifecycle[i].conn = "open"
    /\ \A i \in 1..Len(calls) : calls[i].conn = "open"
    /\ calls # <<>> => lifecycle # <<>> /\ lifecycle[1].ok
    /\ (Exited /\ lifecycle # <<>> /\ lifecycle[1].ok) =>
          /\ conn = "closed"
          /\ Len(lifecycle) = 2

C5_Witness ==
    /\ pc = "raised"
    /\ err = "collectExtOutput"
    /\ conn = "closed"
    /\ Len(DumpRequests) = 1

PoolsDone ==
    IF pc = "pools" THEN SubSeq(pools_list, 1, Len(pools_list) - Len(todo))
    ELSE pools_list

\* C6: one StoragePool.getSpmStatus call per discovered pool, in list
\* order, and one entry per pool named after it; a call that raises leaves
\* its error string and the calls and entries of the other pools stay.
C6_PoolFanOut ==
    LET status == SelectSeq(calls, LAMBDA e : IsSpmStatus(e.name))
        entries == SelectSeq(copy_strings, LAMBDA r : IsSpmStatus(r.arg))
        pools == PoolsDone
    IN  /\ Len(status) = Len(pools)
        /\ Len(entries) = Len(pools)
        /\ \A i \in 1..Len(pools) :
              /\ status[i].name = <<"StoragePool.getSpmStatus ", pools[i]>>
              /\ status[i].kwargs = <<"storagepoolID", pools[i]>>
              /\ entries[i].arg = <<"StoragePool.getSpmStatus ", pools[i]>>
              /\ entries[i].extra =
                    IF status[i].ok THEN ExpectedJson(status[i].name)
                    ELSE <<"Connection refused">>

C6_Witness ==
    /\ Exited
    /\ pools_list = <<"pool-a", "pool-b">>
    /\ Len(calls) >= 11
    /\ ~calls[10].ok
    /\ calls[11].ok
    /\ copy_strings[9].arg = <<"StoragePool.getSpmStatus ", "pool-a">>
    /\ copy_strings[9].extra = <<"Connection refused">>
    /\ copy_strings[10].arg = <<"StoragePool.getSpmStatus ", "pool-b">>
    /\ copy_strings[10].extra = <<"[", "1", ", ", "2", "]">>

\* A path component that holds a wildcard
Wildcards == {"*", "*-key.*", "vds_installer*", "vds_bootstrap*"}
HasWildcard(c) == c \in Wildcards
MayMatch(a, b) == a = b \/ HasWildcard(a) \/ HasWildcard(b)

\* The request p can reach a file the pattern f names: one is above the
\* other in the tree, component by component.
Overlaps(p, f) ==
    LET n == IF Len(p) < Len(f) THEN Len(p) ELSE Len(f)
    IN  \A k \in 1..n : MayMatch(p[k], f[k])

SensitivePatterns ==
    { <<"etc", "pki", "vdsm", "keys", "*">>,
      <<"etc", "pki", "vdsm", "libvirt-spice", "*-key.*">>,
      <<"etc", "pki", "libvirt", "private", "*">> }

C8_DomainFanOut ==
    LET dumps == DumpRequests
        discovered == \E i \in 1..Len(calls) :
                          /\ calls[i].name = <<"Host.getStorageDomains">>
                          /\ calls[i].ok
    IN  /\ ~Truthy(getOption("dump-volume-chains")) =>
              /\ dumps = <<>>
              /\ \A i \in 1..Len(calls) : calls[i].name # <<"Host.getStorageDomains">>
        /\ conn \notin {"open", "closed"} => dumps = <<>>
        /\ (Exited /\ Truthy(getOption("dump-volume-chains")) /\ conn = "closed") =>
              \E i \in 1..Len(calls) : calls[i].name = <<"Host.getStorageDomains">>
        /\ (Exited /\ Truthy(getOption("dump-volume-chains")) /\ discovered) =>
              /\ Len(dumps) = Len(sd_uuids)
              /\ \A i \in 1..Len(sd_uuids) :
                    dumps[i].arg = <<"vdsm-tool dump-volume-chains ", sd_uuids[i]>>

\* C9: a failure to launch pgrep, or of os.stat on a run-directory entry,
\* is recorded as a string and stops nothing: the later requests of setup()
\* are issued and the remote phase is attempted.
C9_LocalProbesIsolated ==
    Exited =>
        /\ LocalRequestsIssued
        /\ lifecycle # <<>>

LogRequests ==
    SelectSeq(copy_paths, LAMBDA r : r.arg = <<"var", "log", "vdsm", "*">>)

\* C10: exactly one copy request is issued for /var/log/vdsm/*: size-capped
\* with the value of logsize when the option is set, uncapped when it is not
\* set, which includes the option left at its declared default.
C10_LogSizePolicy ==
    pc \notin {"start", "logsize"} =>
        LET reqs == LogRequests
            logsize == getOption("logsize")
            unset == logsize \in {PyNone, OptionDefault("logsize")}
        IN  /\ Len(reqs) = 1
            /\ unset => reqs[1].kind = "copy"
            /\ ~unset => reqs[1].kind = "copylimit" /\ reqs[1].extra = logsize

====
